---- MODULE Spec2Model ----
(***************************************************************************)
(* FeatureTrackingApp (src/src/Project2.cpp): the frame update loop that   *)
(* re-seeds a feature list with cv::goodFeaturesToTrack, propagates it     *)
(* with cv::calcOpticalFlowPyrLK, and the draw() pass that overlays the    *)
(* previous features, the current features and the flow lines.             *)
(*                                                                         *)
(* The two OpenCV calls and the Cinder capture are external collaborators: *)
(* each is modelled by the set of results its interface allows, from which *)
(* the actions choose.  Calls made to the collaborators by the latest      *)
(* update() are recorded in `calls`, and the vertices the latest draw()    *)
(* emitted in `lines`, so that properties can speak about them.            *)
(***************************************************************************)
EXTENDS Integers, Sequences, FiniteSets

\* ---------------------------------------------------------------- constants

SAMPLE_WINDOW_MOD == 300
MAX_FEATURES == 300

\* ------------------------------------------------------------------- bounds

\* longest point list the detector returns in the model
MaxLen == 1
\* update ticks explored: getElapsedFrames() values up to MaxFrames - 1 are tested
MaxFrames == 302
\* frames injected in the end-to-end scenario (indices 0 .. NumE2EFrames - 1)
NumE2EFrames == 301

\* mSurface == nullptr, mPrevFrame.data == NULL
NULL == "NULL"
\* camera images and point positions are uninterpreted values; two of each
\* tell "same" from "different"
Images == {"imgA", "imgB"}
Points == {"p", "q"}
\* the single stationary corner of the end-to-end scenario
StationaryPoint == "p"

VARIABLES
    setupDone,         \* setup() has run
    mCapture,          \* "null" | "created" | "started"
    mSurface,          \* NULL or the latest captured image
    mTexture,          \* NULL or the image uploaded to the GL texture
    mPrevFrame,        \* cv::Mat: [data |-> NULL] or [data |-> image]
    mFeatures,         \* sequence of points
    mPrevFeatures,     \* sequence of points
    mFeatureStatuses,  \* sequence of uint8_t
    elapsedFrames,     \* value getElapsedFrames() returns in the next update()
    newFrame,          \* checkNewFrame() result of the latest update()
    calls,             \* collaborator calls made by the latest update(), in order
    drawn,             \* draw() has run since the latest update()
    lines              \* segments emitted by that draw(): [idx, a, b]

vars == <<setupDone, mCapture, mSurface, mTexture, mPrevFrame, mFeatures,
          mPrevFeatures, mFeatureStatuses, elapsedFrames, newFrame, calls,
          drawn, lines>>

\* ------------------------------------------------------------ collaborators

\* sequences over S of length 0..n
SeqsUpTo(S, n) == UNION {[1..k -> S] : k \in 0..n}

Min(a, b) == IF a < b THEN a ELSE b

\* the point lists of the model
PointLists == SeqsUpTo(Points, Min(MAX_FEATURES, MaxLen))

\* cv::goodFeaturesToTrack(curFrame, mFeatures, MAX_FEATURES, 0.005, 3.0):
\* at most MAX_FEATURES corners, possibly none, pairwise at least 3.0 apart
\* (hence pairwise distinct).
DetectorOutputs ==
    {s \in PointLists :
        \A i, j \in DOMAIN s : i # j => s[i] # s[j]}

\* mutant: the estimator removes the features it lost instead of flagging them
FlowOutputsDroppingLost(prevPts) ==
    UNION {[pts : [1..k -> Points], status : [1..k -> {1}]] :
              k \in 0..Len(prevPts)}

\* mutant: the status vector is left as it was (not resized to the points)
FlowOutputsStaleStatus(prevPts) ==
    [pts : [1..Len(prevPts) -> Points], status : {mFeatureStatuses}]

\* cv::calcOpticalFlowPyrLK(mPrevFrame, curFrame, mPrevFeatures, mFeatures,
\* mFeatureStatuses, errors): nextPts and status are resized to the number of
\* input points; status[i] is 1 when the flow of point i was found, else 0.
FlowOutputs(prevPts) ==
    [pts : [1..Len(prevPts) -> Points], status : [1..Len(prevPts) -> {0, 1}]]

\* outcomes of the try block of setup(): Capture::create throws (mCapture
\* stays null), start() throws (handle created, capture not running), or
\* both succeed.
SetupOutcomes == {"null", "created", "started"}

\* mutant: frames arrive whether or not the capture was opened
CheckNewFrameUnguarded == BOOLEAN

\* mCapture && mCapture->checkNewFrame(): a frame can only arrive from a
\* capture that exists and was started.
CheckNewFrameOutcomes == IF mCapture = "started" THEN BOOLEAN ELSE {FALSE}

\* toOcv(Channel(*mSurface)): the 8-bit single-channel matrix of the surface
ToOcv(surface) == [data |-> surface]

\* --------------------------------------------------------------------- init

\* The members as default-constructed.  The framework's frame counter is
\* advanced once per update(); whether the first update() reads 0 or 1 is the
\* framework's choice, so both are initial states.
Init ==
    /\ setupDone = FALSE
    /\ mCapture = "null"
    /\ mSurface = NULL
    /\ mTexture = NULL
    /\ mPrevFrame = [data |-> NULL]
    /\ mFeatures = <<>>
    /\ mPrevFeatures = <<>>
    /\ mFeatureStatuses = <<>>
    /\ elapsedFrames \in {0, 1}
    /\ newFrame = FALSE
    /\ calls = <<>>
    /\ drawn = FALSE
    /\ lines = {}

\* -------------------------------------------------------------------- setup

Setup(outcome) ==
    /\ ~setupDone
    /\ setupDone' = TRUE
    /\ mCapture' = outcome
    /\ mPrevFrame' = [data |-> NULL]
    /\ UNCHANGED <<mSurface, mTexture, mFeatures, mPrevFeatures,
                   mFeatureStatuses, elapsedFrames, newFrame, calls, drawn,
                   lines>>

\* ------------------------------------------------------------------- update

\* mutant: the first-frame test is dropped
HasPrevFrameAlways == TRUE

\* if( mPrevFrame.data )
HasPrevFrame == mPrevFrame.data # NULL

\* mutant: features are re-seeded only when none are left
RedetectOnlyWhenEmpty == mFeatures = <<>>

\* mutant: features are re-seeded only on the sampling window
RedetectOnlyOnWindow == elapsedFrames % SAMPLE_WINDOW_MOD = 0

\* if( mFeatures.empty() || getElapsedFrames() % SAMPLE_WINDOW_MOD == 0 )
Redetect == mFeatures = <<>> \/ elapsedFrames % SAMPLE_WINDOW_MOD = 0

\* mutant: the copy is made before the re-detection
SavedPreviousBeforeDetect(feats) == mFeatures

\* mPrevFeatures = mFeatures, executed after the optional re-detection:
\* `feats` is mFeatures at that point
SavedPrevious(feats) == feats

\* mutant: a call that re-detected skips the flow estimation
FlowNeededUnlessRedetected(feats) ==
    feats # <<>> /\ ~(mFeatures = <<>> \/ elapsedFrames % SAMPLE_WINDOW_MOD = 0)

\* if( ! mFeatures.empty() ) guarding calcOpticalFlowPyrLK
FlowNeeded(feats) == feats # <<>>

DetectCall(img, det) ==
    [fn |-> "goodFeaturesToTrack", image |-> img, out |-> det]

FlowCall(prevImg, nextImg, prevPts, fl) ==
    [fn |-> "calcOpticalFlowPyrLK", prevImg |-> prevImg, nextImg |-> nextImg,
     prevPts |-> prevPts, nextPts |-> fl.pts, status |-> fl.status]

\* mPrevFrame = curFrame
StoredFrame(curFrame) == curFrame

\* findOpticalFlow() on the surface `surface`; Dets is the set of answers the
\* detector may give and Flow[prevPts] the set of answers the flow estimator
\* may give, should they be called
FindOpticalFlow(surface, Dets, Flow) ==
    IF surface = NULL
    THEN /\ calls' = <<>>
         /\ UNCHANGED <<mPrevFrame, mFeatures, mPrevFeatures, mFeatureStatuses>>
    ELSE LET curFrame == ToOcv(surface) IN
         /\ mPrevFrame' = StoredFrame(curFrame)
         /\ IF HasPrevFrame
            THEN \E feats \in (IF Redetect THEN Dets ELSE {mFeatures}) :
                 LET detect == IF Redetect
                               THEN <<DetectCall(curFrame, feats)>>
                               ELSE <<>>
                 IN
                 /\ mPrevFeatures' = SavedPrevious(feats)
                 /\ IF FlowNeeded(feats)
                    THEN \E fl \in Flow[mPrevFeatures'] :
                         /\ mFeatures' = fl.pts
                         /\ mFeatureStatuses' = fl.status
                         /\ calls' = detect \o
                              <<FlowCall(mPrevFrame, curFrame,
                                         mPrevFeatures', fl)>>
                    ELSE /\ mFeatures' = feats
                         /\ UNCHANGED mFeatureStatuses
                         /\ calls' = detect
            ELSE /\ calls' = <<>>
                 /\ UNCHANGED <<mFeatures, mPrevFeatures, mFeatureStatuses>>

\* update(): News is the set of results mCapture && mCapture->checkNewFrame()
\* may give, Imgs the surfaces getSurface() may return when it is true
Update(News, Imgs, Dets, Flow) ==
    /\ setupDone
    /\ elapsedFrames < MaxFrames
    /\ \E new \in News :
       \E surface \in (IF new THEN Imgs ELSE {mSurface}) :
       /\ newFrame' = new
       /\ mSurface' = surface
       /\ mTexture' = surface
       /\ FindOpticalFlow(surface, Dets, Flow)
    /\ elapsedFrames' = elapsedFrames + 1
    /\ drawn' = FALSE
    /\ lines' = {}
    /\ UNCHANGED <<setupDone, mCapture>>

\* --------------------------------------------------------------------- draw

\* mFeatureStatuses[idx]: reading past the end of the vector is undefined, so
\* any byte may come back
StatusReads(idx) ==
    IF idx <= Len(mFeatureStatuses) THEN {mFeatureStatuses[idx]} ELSE {0, 1}

\* mPrevFeatures[idx], likewise
PrevReads(idx) ==
    IF idx <= Len(mPrevFeatures) THEN {mPrevFeatures[idx]} ELSE Points

\* mutant: every feature gets a flow line
GateAlways(status) == TRUE

\* if( mFeatureStatuses[idx] )
Gate(status) == status # 0

\* the GL_LINES loop of draw(): st and pv are the values read at each idx
Draw(st, pv) ==
    /\ setupDone
    /\ ~drawn
    /\ \A idx \in DOMAIN mFeatures :
          st[idx] \in StatusReads(idx) /\ pv[idx] \in PrevReads(idx)
    /\ drawn' = TRUE
    /\ lines' = {[idx |-> idx, a |-> mFeatures[idx], b |-> pv[idx]] :
                    idx \in {i \in DOMAIN mFeatures : Gate(st[i])}}
    /\ UNCHANGED <<setupDone, mCapture, mSurface, mTexture, mPrevFrame,
                   mFeatures, mPrevFeatures, mFeatureStatuses, elapsedFrames,
                   newFrame, calls>>

\* ----------------------------------------------------------- specifications

DoSetup == \E outcome \in SetupOutcomes : Setup(outcome)

\* the estimator as a map from the point list it is given to its answers
FlowEstimator == [prevPts \in PointLists |-> FlowOutputs(prevPts)]

Tick == Update(CheckNewFrameOutcomes, Images, DetectorOutputs, FlowEstimator)

DoDraw ==
    \E st \in [DOMAIN mFeatures -> {0, 1}], pv \in [DOMAIN mFeatures -> Points] :
        Draw(st, pv)

Next == DoSetup \/ Tick \/ DoDraw

Spec == Init /\ [][Next]_vars

\* End-to-end scenario: the capture opens, every tick delivers a frame whose
\* index is the getElapsedFrames() value of the tick (0, 1, ...), the detector
\* finds the one stationary corner in every frame and the estimator tracks it
\* with zero displacement.
StationaryDetector == {<<StationaryPoint>>}

StationaryFlow ==
    [prevPts \in PointLists |->
        {[pts |-> prevPts, status |-> [i \in 1..Len(prevPts) |-> 1]]}]

InitE2E == Init /\ elapsedFrames = 0

SetupE2E == Setup("started")

TickE2E ==
    /\ elapsedFrames < NumE2EFrames
    /\ Update({TRUE}, Images, StationaryDetector, StationaryFlow)

NextE2E == SetupE2E \/ TickE2E

SpecE2E == InitE2E /\ [][NextE2E]_vars

\* ------------------------------------------------------------------- claims

\* a step of update(): the only steps that advance the frame counter
IsUpdate == elapsedFrames' = elapsedFrames + 1

DetectCalled == \E i \in DOMAIN calls : calls[i].fn = "goodFeaturesToTrack"
FlowCalled == \E i \in DOMAIN calls : calls[i].fn = "calcOpticalFlowPyrLK"
\* the calls themselves: the detector's is first when both were made
TheDetectCall == calls[1]
TheFlowCall == calls[Len(calls)]

\* the test of the claims: feature list empty or frame index on the window
EmptyOrWindow == mFeatures = <<>> \/ elapsedFrames % SAMPLE_WINDOW_MOD = 0

\* C1 as stated: in every update call the detector is invoked exactly when the
\* feature list is empty or the frame index mod 300 is 0, and in every other
\* update call the flow estimator is invoked and the detector is not.
C1_AsStated ==
    [][IsUpdate =>
        /\ DetectCalled' <=> EmptyOrWindow
        /\ ~EmptyOrWindow => FlowCalled' /\ ~DetectCalled']_vars

\* C1 amended: in every update call the detector is invoked exactly when a
\* previous frame is stored and (the feature list is empty or the frame index
\* mod 300 is 0); in every update call where neither holds, the flow
\* estimator is invoked and the detector is not.
C1_RedetectExactlyWhen ==
    [][IsUpdate =>
        /\ DetectCalled' <=> (mPrevFrame.data # NULL /\ EmptyOrWindow)
        /\ ~EmptyOrWindow => FlowCalled' /\ ~DetectCalled']_vars

\* a call on the sampling window re-detected and then tracked the fresh set
C1_Witness ==
    /\ elapsedFrames = SAMPLE_WINDOW_MOD + 1
    /\ DetectCalled
    /\ FlowCalled
    /\ Len(calls) = 2

\* C2: the update call that processes the first frame (a surface, no stored
\* previous frame) invokes neither collaborator, stores the frame as the
\* previous frame and leaves the features, previous features and statuses
\* empty.
C2_FirstFrameOnlyStored ==
    [][(IsUpdate /\ mPrevFrame.data = NULL /\ mSurface' # NULL) =>
        /\ calls' = <<>>
        /\ mPrevFrame' = [data |-> mSurface']
        /\ mFeatures' = <<>>
        /\ mPrevFeatures' = <<>>
        /\ mFeatureStatuses' = <<>>]_vars

\* the first frame has just been processed: a frame is stored and nothing
\* was called
C2_Witness ==
    /\ mPrevFrame.data # NULL
    /\ newFrame
    /\ calls = <<>>
    /\ mFeatures = <<>>

\* C3 as stated: at the end of an update call that re-detected, the current
\* and the previous features are equal, both the freshly detected set.
C3_AsStated ==
    DetectCalled =>
        /\ mFeatures = mPrevFeatures
        /\ mFeatures = TheDetectCall.out

\* C3 amended: at the end of an update call that re-detected, the previous
\* features are the freshly detected set; the current features equal it when
\* it is empty (no flow call is made), and otherwise the flow estimator was
\* called on it in the same update call and the current features are the
\* estimator's output, of the same length.
C3_AfterRedetect ==
    DetectCalled =>
        LET d == TheDetectCall.out IN
        /\ mPrevFeatures = d
        /\ d = <<>> => mFeatures = <<>> /\ ~FlowCalled
        /\ d # <<>> =>
              /\ FlowCalled
              /\ TheFlowCall.prevPts = d
              /\ mFeatures = TheFlowCall.nextPts
              /\ Len(mFeatures) = Len(d)

\* a call that re-detected ends with current features that differ from the
\* previous ones
C3_Witness ==
    /\ DetectCalled
    /\ mPrevFeatures = TheDetectCall.out
    /\ mFeatures # mPrevFeatures

\* C4: an update call in which the camera delivers no new frame invokes
\* neither collaborator and leaves the previous frame, the features, the
\* previous features and the statuses unchanged.
C4_NoFrameNoOp ==
    [][(IsUpdate /\ ~newFrame') =>
        /\ calls' = <<>>
        /\ UNCHANGED <<mPrevFrame, mFeatures, mPrevFeatures,
                       mFeatureStatuses>>]_vars

\* C5: the lines draw() emits are exactly those of the indices of the current
\* feature list whose status is non-zero, each joining currentFeatures[idx]
\* and previousFeatures[idx]; a feature with status zero has no line.
C5_StatusGatesLine ==
    drawn =>
        /\ \A idx \in DOMAIN mFeatures :
              /\ idx \in DOMAIN mFeatureStatuses
              /\ (\E l \in lines : l.idx = idx) <=> mFeatureStatuses[idx] # 0
        /\ \A l \in lines :
              /\ l.idx \in DOMAIN mFeatures
              /\ l.idx \in DOMAIN mPrevFeatures
              /\ l.a = mFeatures[l.idx]
              /\ l.b = mPrevFeatures[l.idx]

\* draw() ran over a lost feature and emitted no line for it
C5_Witness ==
    /\ drawn
    /\ \E idx \in DOMAIN mFeatures :
          /\ idx \in DOMAIN mFeatureStatuses
          /\ mFeatureStatuses[idx] = 0
          /\ ~\E l \in lines : l.idx = idx

\* C6: once setup() has failed to open the capture, the failure stays and
\* after every later step no frame is stored, no collaborator was invoked and
\* the features, previous features and statuses are empty.
C6_FailedCaptureNoOp ==
    [][(setupDone' /\ mCapture' # "started") =>
        /\ setupDone => mCapture' = mCapture
        /\ mSurface' = NULL
        /\ mPrevFrame'.data = NULL
        /\ calls' = <<>>
        /\ mFeatures' = <<>>
        /\ mPrevFeatures' = <<>>
        /\ mFeatureStatuses' = <<>>]_vars

\* several ticks have run after a failed setup()
C6_Witness ==
    /\ setupDone
    /\ mCapture = "null"
    /\ elapsedFrames >= 3

\* C7: an update call that computed flow ends with current features,
\* previous features and statuses of equal length, and an update call that
\* did not re-detect leaves the number of current features unchanged.
C7_FlowKeepsLength ==
    [][IsUpdate =>
        /\ FlowCalled' =>
              /\ Len(mFeatures') = Len(mPrevFeatures')
              /\ Len(mFeatures') = Len(mFeatureStatuses')
        /\ ~DetectCalled' => Len(mFeatures') = Len(mFeatures)]_vars

\* flow was computed without re-detection and a lost feature is still listed
C7_Witness ==
    /\ FlowCalled
    /\ ~DetectCalled
    /\ \E i \in DOMAIN mFeatureStatuses : mFeatureStatuses[i] = 0
    /\ Len(mFeatures) = Len(mFeatureStatuses)

\* C8 as stated: in the end-to-end scenario the detector is invoked at frame
\* 0, the flow estimator and not the detector at each of frames 1..299, and
\* the detector at frame 300.
C8_AsStated ==
    [][IsUpdate =>
        /\ elapsedFrames = 0 => DetectCalled'
        /\ elapsedFrames \in 1..(SAMPLE_WINDOW_MOD - 1) =>
              FlowCalled' /\ ~DetectCalled'
        /\ elapsedFrames = SAMPLE_WINDOW_MOD => DetectCalled']_vars

\* C8 amended: in the end-to-end scenario frame 0 is only stored (neither
\* collaborator is invoked), the detector and then the flow estimator are
\* invoked at frame 1, the flow estimator and not the detector at each of
\* frames 2..299, and the detector and then the flow estimator at frame 300.
C8_EndToEnd ==
    [][IsUpdate =>
        /\ elapsedFrames = 0 => calls' = <<>>
        /\ elapsedFrames = 1 => DetectCalled' /\ FlowCalled'
        /\ elapsedFrames \in 2..(SAMPLE_WINDOW_MOD - 1) =>
              FlowCalled' /\ ~DetectCalled'
        /\ elapsedFrames = SAMPLE_WINDOW_MOD =>
              DetectCalled' /\ FlowCalled']_vars

\* frame 300 has been processed: re-detected, then tracked in place
C8_Witness ==
    /\ elapsedFrames = SAMPLE_WINDOW_MOD + 1
    /\ DetectCalled
    /\ FlowCalled
    /\ mFeatures = <<StationaryPoint>>
    /\ mPrevFeatures = <<StationaryPoint>>

\* C9: in every update call with a stored previous frame, the previous
\* features at the end of the call are the detector's output if it ran in
\* this call and otherwise the current features left by the preceding call;
\* they are the point list handed to the flow estimator when it is called;
\* the estimator's first image is the frame stored by the preceding call, and
\* the frame processed by this call is stored as the previous frame.
C9_CopyThenFlow ==
    [][(IsUpdate /\ mPrevFrame.data # NULL) =>
        /\ mPrevFeatures' =
              (IF DetectCalled' THEN TheDetectCall'.out ELSE mFeatures)
        /\ FlowCalled' =>
              /\ TheFlowCall'.prevPts = mPrevFeatures'
              /\ TheFlowCall'.prevImg = mPrevFrame
              /\ TheFlowCall'.nextImg = [data |-> mSurface']
        /\ mPrevFrame' = [data |-> mSurface']]_vars

\* flow was computed, without re-detection, between two different frames
C9_Witness ==
    /\ FlowCalled
    /\ ~DetectCalled
    /\ TheFlowCall.prevPts = mPrevFeatures
    /\ TheFlowCall.prevImg # TheFlowCall.nextImg
    /\ TheFlowCall.nextImg = mPrevFrame

\* C10: in every reachable state every index of the current feature list is
\* an index of the status list and of the previous feature list.
C10_DrawInBounds ==
    \A idx \in 1..Len(mFeatures) :
        idx <= Len(mFeatureStatuses) /\ idx <= Len(mPrevFeatures)

\* a re-detection returned the empty list while the statuses of an earlier
\* flow computation are still there
C10_Witness ==
    /\ DetectCalled
    /\ mFeatures = <<>>
    /\ mFeatureStatuses # <<>>

====
